---- MODULE Spec2Model ----
(***************************************************************************)
(* Model of lib/src/common/network_utils.cc.                               *)
(*                                                                         *)
(* srsran::rx_multisocket_handler: the reactor thread (run_thread), the    *)
(* registration API (add_socket_handler, remove_socket) and shutdown       *)
(* (stop), together with the kernel objects they talk through: the control *)
(* pipe, the mutex socket_mutex and select().                              *)
(*                                                                         *)
(* srsran::socket_handler_t and net_utils: open_socket, bind_addr,         *)
(* sctp_init_socket, tcp_make_server, tcp_send, and the two built-in       *)
(* receive tasks, together with the descriptor table of the process.       *)
(***************************************************************************)
EXTENDS Integers, Sequences, FiniteSets, TLC

(***************************************************************************)
(* Bounds and the descriptors of the scenario                              *)
(***************************************************************************)
\* number of ctrl_cmd_t records the kernel pipe buffer holds before a
\* blocking write(2) blocks (65536 / sizeof(ctrl_cmd_t) on Linux, scaled down)
PipeCap == 2
\* how many times stop() is called (explicitly and by the destructor)
MaxStops == 2

\* descriptors returned by pipe(pipefd) in the constructor
PipeRd == 2
PipeWr == 3
\* open descriptors the callers own and register
UserFds == {1, 4}
\* arguments the callers pass: the open descriptors and an invalid one
ArgFds == UserFds \cup {-1}
\* threads calling add_socket_handler / remove_socket
Callers == {"c1", "c2"}
\* end() of active_sockets
END == 99

\* the largest descriptor the process may have open (RLIMIT_NOFILE - 1,
\* scaled down)
MaxFd == 3
\* descriptors that are open when the program starts: standard input
StdFds == {0}
\* the socket_handler_t objects of the program
Handles == {"a", "b"}
\* net_utils::protocol_type
Protocols == {"TCP", "UDP", "SCTP"}
\* the system calls of net_utils::open_socket, each of which may fail
OpenSteps == {"socket", "events", "rto_get", "rto_set", "init_get", "init_set"}
\* the largest buffer passed to tcp_send
MaxBytes == 8
\* how many system calls of one call of open_socket fail
MaxFails == 2
\* the sets of system calls that fail in one call of open_socket
FailSets == {F \in SUBSET OpenSteps : Cardinality(F) <= MaxFails}

VARIABLES
  active_sockets,  \* keys of std::map<int, task_callback_t> active_sockets
  pipefd,          \* int pipefd[2]; pipefd[1] is the read end (C index 0),
                   \* pipefd[2] the write end (C index 1); -1 once closed
  pipe,            \* records buffered in the kernel pipe, oldest first
  running,         \* bool running
  socket_mutex,    \* owner of std::mutex socket_mutex, or "free"
  rpc,             \* position of the reactor thread in run_thread
  total_fd_set,    \* run_thread local
  read_fd_set,     \* run_thread local
  max_fd,          \* run_thread local
  n,               \* run_thread local: return value of select
  handler_it,      \* run_thread local: iterator of the dispatch loop
  invoked,         \* per descriptor, calls of its task since the last select
  pc,              \* position of each caller thread
  op,              \* per caller: the operation of the call it is in
  arg,             \* per caller: the fd argument of the call it is in
  last,            \* the call that returned last: operation, argument,
                   \* return value and the error it logged
  spc,             \* position of the thread calling stop()
  nstop,           \* calls of stop() begun
  stop_wr,         \* outcome of the write at line 524 of the last stop()
  crashed,         \* the process was killed by undefined behaviour
  closed_fds,      \* descriptors rx_multisocket_handler has passed to ::close
  fd_table,        \* descriptors open in the process (socket handles' side)
  live,            \* per socket_handler_t object: constructed and not destroyed
  sockfd,          \* per socket_handler_t object: int sockfd
  addr,            \* per socket_handler_t object: sockaddr_in addr, set or not
  owned,           \* descriptors created by open_socket and still open
  hlast,           \* the socket call that returned last and what it did
  tcp_pc,          \* position of the thread calling net_utils::tcp_send
  nbytes,          \* tcp_send: size_t nbytes
  nbytes_remaining,\* tcp_send: ssize_t nbytes_remaining
  tcp_ret,         \* tcp_send: the value returned
  task_last        \* the last call of a built-in receive task: its kind,
                   \* what the receive call did, the value returned and
                   \* the calls of the handler func

\* the state of rx_multisocket_handler and its threads
mvars == <<active_sockets, pipefd, pipe, running, socket_mutex, rpc,
           total_fd_set, read_fd_set, max_fd, n, handler_it, invoked,
           pc, op, arg, last, spc, nstop, stop_wr, crashed, closed_fds>>

\* the state of the socket handles and of net_utils
netvars == <<fd_table, live, sockfd, addr, owned, hlast,
             tcp_pc, nbytes, nbytes_remaining, tcp_ret, task_last>>

hvars == <<fd_table, live, sockfd, addr, owned, hlast>>
tvars == <<tcp_pc, nbytes, nbytes_remaining, tcp_ret>>

vars == <<mvars, netvars>>

rvars == <<rpc, total_fd_set, read_fd_set, max_fd, n, handler_it, invoked>>
cvars == <<pc, op, arg, last>>
svars == <<spc, nstop, stop_wr>>

(***************************************************************************)
(* Helpers                                                                 *)
(***************************************************************************)
Max(a, b) == IF a >= b THEN a ELSE b

\* active_sockets.rbegin()->first
SetMax(S) == CHOOSE x \in S : \A y \in S : y <= x

\* active_sockets.begin()
Begin(S) == IF S = {} THEN END ELSE CHOOSE x \in S : \A y \in S : x <= y

\* ++handler_it, and the iterator std::map::erase returns
NextIt(S, fd) == Begin({x \in S : x > fd})

ExitMsg == [cmd |-> "EXIT", new_fd |-> 0]
NewFdMsg(fd) == [cmd |-> "NEW_FD", new_fd |-> fd]
RmFdMsg(fd) == [cmd |-> "RM_FD", new_fd |-> fd]

\* the message a caller in state "write" is about to write
CallerMsg(t) == IF op[t] = "add" THEN NewFdMsg(arg[t]) ELSE RmFdMsg(arg[t])

\* write(pipefd[1], &msg, sizeof(msg)) != sizeof(msg)
\* a write on a closed descriptor fails (EBADF)
WriteFails == pipefd[2] < 0

\* a blocking write(2) blocks while the pipe buffer has no room
WriteBlocks == pipefd[2] >= 0 /\ Len(pipe) >= PipeCap

\* what a call leaves behind when it returns
Returned(o, fd, r, e) == [op |-> o, fd |-> fd, ret |-> r, err |-> e]

NoCall == Returned("none", -1, "none", "none")

InitInvoked == [fd \in UserFds |-> 0]

\* what a call on a socket handle leaves behind: the method, the object, its
\* return value, and the descriptor it passed to ::close (-1 if none)
SockCall(o, h, r, e, c) == [op |-> o, h |-> h, ret |-> r, err |-> e, closed |-> c]

NoSockCall == SockCall("none", "none", "none", "none", -1)

\* no built-in task has been called
NoTask == [kind |-> "none", outcome |-> "none", ret |-> TRUE, func |-> 0]

Init ==
  /\ active_sockets = {}
  /\ pipefd = <<PipeRd, PipeWr>>
  /\ pipe = << >>
  /\ running = FALSE
  /\ socket_mutex = "free"
  /\ rpc = "start"
  /\ total_fd_set = {}
  /\ read_fd_set = {}
  /\ max_fd = 0
  /\ n = 0
  /\ handler_it = END
  /\ invoked = InitInvoked
  /\ pc = [t \in Callers |-> "idle"]
  /\ op = [t \in Callers |-> "none"]
  /\ arg = [t \in Callers |-> -1]
  /\ last = NoCall
  /\ spc = "idle"
  /\ nstop = 0
  /\ stop_wr = "none"
  /\ crashed = FALSE
  /\ closed_fds = {}
  /\ fd_table = StdFds
  /\ live = [h \in Handles |-> FALSE]
  /\ sockfd = [h \in Handles |-> -1]
  /\ addr = [h \in Handles |-> "none"]
  /\ owned = {}
  /\ hlast = NoSockCall
  /\ tcp_pc = "idle"
  /\ nbytes = 0
  /\ nbytes_remaining = 0
  /\ tcp_ret = 0
  /\ task_last = NoTask

(***************************************************************************)
(* add_socket_handler / remove_socket                                      *)
(***************************************************************************)
\* a check that lets the invalid descriptor -1 through
InvalidFd_OffByOne(fd) == fd < -1

\* if (fd < 0)
InvalidFd(fd) == fd < 0

\* if (active_sockets.count(fd) > 0)
DuplicateFd(fd) == fd \in active_sockets

\* if (it == active_sockets.end())
NotFound(fd) == fd \notin active_sockets

\* lines 563-573: lock, the two checks, the insertion
AddSocketHandler(t, fd) ==
  /\ ~crashed
  /\ pc[t] = "idle"
  /\ socket_mutex = "free"
  /\ IF InvalidFd(fd) \/ DuplicateFd(fd)
       THEN /\ last' = Returned("add", fd, "false",
                         IF InvalidFd(fd) THEN "invalid_fd" ELSE "duplicate_fd")
            /\ UNCHANGED <<active_sockets, pc, op, arg, socket_mutex>>
       ELSE /\ active_sockets' = active_sockets \cup {fd}
            /\ pc' = [pc EXCEPT ![t] = "write"]
            /\ op' = [op EXCEPT ![t] = "add"]
            /\ arg' = [arg EXCEPT ![t] = fd]
            /\ socket_mutex' = t
            /\ UNCHANGED last
  /\ UNCHANGED <<pipefd, pipe, running, rvars, svars, crashed>>
  /\ UNCHANGED <<closed_fds, netvars>>

\* lines 590-595: lock, the lookup
RemoveSocket(t, fd) ==
  /\ ~crashed
  /\ pc[t] = "idle"
  /\ socket_mutex = "free"
  /\ IF NotFound(fd)
       THEN /\ last' = Returned("rm", fd, "false", "not_found")
            /\ UNCHANGED <<pc, op, arg, socket_mutex>>
       ELSE /\ pc' = [pc EXCEPT ![t] = "write"]
            /\ op' = [op EXCEPT ![t] = "rm"]
            /\ arg' = [arg EXCEPT ![t] = fd]
            /\ socket_mutex' = t
            /\ UNCHANGED last
  /\ UNCHANGED <<active_sockets, pipefd, pipe, running, rvars, svars, crashed>>
  /\ UNCHANGED <<closed_fds, netvars>>

\* a return value that ignores the outcome of the write
RetOfWrite_Ignored(failed) == "true"

\* result of the call when write(...) != sizeof(msg) / == sizeof(msg)
RetOfWrite(failed) == IF failed THEN "false" ELSE "true"

\* the caller leaves its call
Leave(t) ==
  /\ pc' = [pc EXCEPT ![t] = "idle"]
  /\ op' = [op EXCEPT ![t] = "none"]
  /\ arg' = [arg EXCEPT ![t] = -1]
  /\ socket_mutex' = "free"

\* lines 576-585 and 597-604: the write of the control message, the return
\* value and the release of the lock_guard
WriteCtrl(t) ==
  /\ ~crashed
  /\ pc[t] = "write"
  /\ ~WriteBlocks
  /\ pipe' = IF WriteFails THEN pipe ELSE Append(pipe, CallerMsg(t))
  /\ last' = Returned(op[t], arg[t], RetOfWrite(WriteFails),
                      IF WriteFails THEN "write" ELSE "none")
  /\ Leave(t)
  /\ UNCHANGED <<active_sockets, pipefd, running, rvars, svars, crashed>>
  /\ UNCHANGED <<closed_fds, netvars>>

\* the same write, blocked on a full pipe and interrupted by a signal (EINTR)
WriteInterrupted(t) ==
  /\ ~crashed
  /\ pc[t] = "write"
  /\ WriteBlocks
  /\ last' = Returned(op[t], arg[t], RetOfWrite(TRUE), "write")
  /\ Leave(t)
  /\ UNCHANGED <<active_sockets, pipefd, pipe, running, rvars, svars, crashed>>
  /\ UNCHANGED <<closed_fds, netvars>>

(***************************************************************************)
(* stop                                                                    *)
(***************************************************************************)
\* line 518: if (running)
StopBegin ==
  /\ ~crashed
  /\ spc = "idle"
  /\ nstop < MaxStops
  /\ nstop' = nstop + 1
  /\ spc' = IF running THEN "lock" ELSE "close"
  /\ UNCHANGED <<active_sockets, pipefd, pipe, running, socket_mutex, rvars, cvars, stop_wr, crashed>>
  /\ UNCHANGED <<closed_fds, netvars>>

\* line 521
StopLock ==
  /\ ~crashed
  /\ spc = "lock"
  /\ socket_mutex = "free"
  /\ socket_mutex' = "s"
  /\ spc' = "write"
  /\ UNCHANGED <<active_sockets, pipefd, pipe, running, rvars, cvars, nstop, stop_wr, crashed>>
  /\ UNCHANGED <<closed_fds, netvars>>

\* where stop() goes after the write of EXIT, whatever its outcome
AfterExitWrite(failed) == "join"

\* lines 522-527: the write of EXIT and the release of the lock_guard
StopWrite ==
  /\ ~crashed
  /\ spc = "write"
  /\ ~WriteBlocks
  /\ pipe' = IF WriteFails THEN pipe ELSE Append(pipe, ExitMsg)
  /\ stop_wr' = IF WriteFails THEN "fail" ELSE "ok"
  /\ socket_mutex' = "free"
  /\ spc' = AfterExitWrite(WriteFails)
  /\ UNCHANGED <<active_sockets, pipefd, running, rvars, cvars, nstop, crashed>>
  /\ UNCHANGED <<closed_fds, netvars>>

\* the same write, blocked on a full pipe and interrupted by a signal (EINTR)
StopWriteInterrupted ==
  /\ ~crashed
  /\ spc = "write"
  /\ WriteBlocks
  /\ stop_wr' = "fail"
  /\ socket_mutex' = "free"
  /\ spc' = AfterExitWrite(TRUE)
  /\ UNCHANGED <<active_sockets, pipefd, pipe, running, rvars, cvars, nstop, crashed>>
  /\ UNCHANGED <<closed_fds, netvars>>

\* line 529: wait_thread_finish() returns once run_thread has returned
ThreadFinished == rpc = "done"

StopJoin ==
  /\ ~crashed
  /\ spc = "join"
  /\ ThreadFinished
  /\ spc' = "close"
  /\ stop_wr' = "none"
  /\ UNCHANGED <<active_sockets, pipefd, pipe, running, socket_mutex, rvars, cvars, nstop, crashed>>
  /\ UNCHANGED <<closed_fds, netvars>>

\* a stop() that also closes the descriptors registered with it
PipeEnds_AndSockets == {pipefd[1], pipefd[2]} \cup active_sockets

\* lines 533-534: the descriptors stop() passes to close()
PipeEnds == {pipefd[1], pipefd[2]}

\* lines 532-538: close both ends of the pipe; what it buffered is gone
StopClose ==
  /\ ~crashed
  /\ spc = "close"
  /\ IF pipefd[1] >= 0
       THEN /\ pipefd' = <<-1, -1>>
            /\ pipe' = << >>
            /\ closed_fds' = closed_fds \cup PipeEnds
       ELSE UNCHANGED <<pipefd, pipe, closed_fds>>
  /\ spc' = "idle"
  /\ UNCHANGED <<active_sockets, running, socket_mutex, rvars, cvars, nstop, stop_wr, crashed>>
  /\ UNCHANGED netvars

(***************************************************************************)
(* run_thread                                                              *)
(***************************************************************************)
\* line 625
RunThreadStart ==
  /\ ~crashed
  /\ rpc = "start"
  /\ running' = TRUE
  /\ rpc' = "init"
  /\ UNCHANGED <<active_sockets, pipefd, pipe, socket_mutex, total_fd_set,
                 read_fd_set, max_fd, n, handler_it, invoked, cvars, svars, crashed>>
  /\ UNCHANGED <<closed_fds, netvars>>

\* lines 626-631.  FD_SET(-1, ...) after stop() closed the pipe is undefined:
\* the bit written lies outside the set, or the process dies
RunThreadInit ==
  /\ ~crashed
  /\ rpc = "init"
  /\ IF pipefd[1] >= 0
       THEN /\ total_fd_set' = {pipefd[1]}
            /\ read_fd_set' = {pipefd[1]}
            /\ max_fd' = Max(pipefd[1], 0)
            /\ rpc' = "wait"
            /\ UNCHANGED crashed
       ELSE \/ /\ total_fd_set' = {}
               /\ read_fd_set' = {}
               /\ max_fd' = Max(pipefd[1], 0)
               /\ rpc' = "wait"
               /\ UNCHANGED crashed
            \/ /\ crashed' = TRUE
               /\ UNCHANGED <<total_fd_set, read_fd_set, max_fd, rpc>>
  /\ UNCHANGED <<active_sockets, pipefd, pipe, running, socket_mutex,
                 n, handler_it, invoked, cvars, svars>>
  /\ UNCHANGED <<closed_fds, netvars>>

\* the descriptors select(max_fd + 1, &read_fd_set, ...) looks at
Watched == {fd \in total_fd_set : fd <= max_fd}

\* a watched descriptor that is no longer open makes select fail with EBADF
WatchedClosed == PipeRd \in Watched /\ pipefd[1] < 0

\* the control descriptor is readable while the pipe buffers a record
CtrlReadable == IF PipeRd \in Watched /\ pipe # << >> THEN {PipeRd} ELSE {}

\* lines 633-641: select fails, the loop continues
SelectError ==
  /\ ~crashed
  /\ rpc = "wait"
  /\ running
  /\ WatchedClosed
  /\ n' = -1
  /\ UNCHANGED <<active_sockets, pipefd, pipe, running, socket_mutex, rpc,
                 total_fd_set, read_fd_set, max_fd, handler_it, invoked, cvars,
                 svars, crashed>>
  /\ UNCHANGED <<closed_fds, netvars>>

\* lines 633-645: select returns the readable descriptors; which data
\* descriptors have input is up to the peers
Select ==
  /\ ~crashed
  /\ rpc = "wait"
  /\ running
  /\ ~WatchedClosed
  /\ \E rs \in SUBSET (Watched \ {PipeRd}) :
       /\ rs \cup CtrlReadable # {}
       /\ read_fd_set' = rs \cup CtrlReadable
       /\ n' = Cardinality(rs \cup CtrlReadable)
  /\ rpc' = "lock"
  /\ UNCHANGED <<active_sockets, pipefd, pipe, running, socket_mutex,
                 total_fd_set, max_fd, handler_it, invoked, cvars, svars, crashed>>
  /\ UNCHANGED <<closed_fds, netvars>>

\* a reactor that enters the shared state area without waiting for the mutex
Lock_NoWait ==
  /\ ~crashed
  /\ rpc = "lock"
  /\ socket_mutex' = "r"
  /\ handler_it' = Begin(active_sockets)
  /\ rpc' = "dispatch"
  /\ UNCHANGED <<active_sockets, pipefd, pipe, running, total_fd_set,
                 read_fd_set, max_fd, n, invoked, cvars, svars, crashed>>
  /\ UNCHANGED <<closed_fds, netvars>>

\* lines 648-651: take the lock, handler_it = active_sockets.begin()
Lock ==
  /\ ~crashed
  /\ rpc = "lock"
  /\ socket_mutex = "free"
  /\ socket_mutex' = "r"
  /\ handler_it' = Begin(active_sockets)
  /\ rpc' = "dispatch"
  /\ UNCHANGED <<active_sockets, pipefd, pipe, running, total_fd_set,
                 read_fd_set, max_fd, n, invoked, cvars, svars, crashed>>
  /\ UNCHANGED <<closed_fds, netvars>>

\* line 618
MaxFdAfterRemove(as) == IF as = {} THEN pipefd[1] ELSE Max(pipefd[1], SetMax(as))

\* lines 614-615: active_sockets.erase(active_sockets.find(fd)).  When fd is
\* not a key, find returns end() and erase(end()) is undefined: the map is
\* left alone, loses some entry, or (Crashes) the process dies
EraseResults_Keep(fd) == {active_sockets}

EraseResults(fd) ==
  IF fd \in active_sockets
    THEN {active_sockets \ {fd}}
    ELSE {active_sockets} \cup {active_sockets \ {x} : x \in active_sockets}

EraseCrashes(fd) == fd \notin active_sockets

\* line 654: if (not FD_ISSET(fd, &read_fd_set))
IsSet(fd) == fd \in read_fd_set

\* an iterator advanced twice
AfterValid_Twice(fd) == NextIt(active_sockets, NextIt(active_sockets, fd))

\* the iterator the loop continues with after a task that returned true
AfterValid(fd) == NextIt(active_sockets, fd)

\* the iterator the loop continues with after a descriptor that is not set
AfterNotSet(fd) == NextIt(active_sockets, fd)

\* lines 651-657: a registered descriptor that is not readable is passed over
DispatchSkip ==
  /\ ~crashed
  /\ rpc = "dispatch"
  /\ handler_it # END
  /\ ~IsSet(handler_it)
  /\ handler_it' = AfterNotSet(handler_it)
  /\ UNCHANGED <<active_sockets, pipefd, pipe, running, socket_mutex, rpc,
                 total_fd_set, read_fd_set, max_fd, n, invoked, cvars, svars, crashed>>
  /\ UNCHANGED <<closed_fds, netvars>>

Bump(c) == IF c < 2 THEN c + 1 ELSE c

\* an iterator advanced once more after the removal
AfterClosed_Skips(fd) == NextIt(active_sockets, NextIt(active_sockets, fd))

\* line 661: the iterator remove_socket_unprotected returns, the one
\* std::map::erase gave it (line 615)
AfterClosed(fd) == NextIt(active_sockets, fd)

\* lines 658-664: the task is called; if it reports the socket closed the
\* entry is removed by remove_socket_unprotected (lines 610-620)
Dispatch(socket_valid) ==
  /\ ~crashed
  /\ rpc = "dispatch"
  /\ handler_it # END
  /\ IsSet(handler_it)
  /\ invoked' = [invoked EXCEPT ![handler_it] = Bump(@)]
  /\ IF socket_valid
       THEN /\ handler_it' = AfterValid(handler_it)
            /\ UNCHANGED <<active_sockets, total_fd_set, max_fd>>
       ELSE /\ active_sockets' = active_sockets \ {handler_it}
            /\ total_fd_set' = total_fd_set \ {handler_it}
            /\ max_fd' = MaxFdAfterRemove(active_sockets \ {handler_it})
            /\ handler_it' = AfterClosed(handler_it)
  /\ UNCHANGED <<pipefd, pipe, running, socket_mutex, rpc, read_fd_set, n,
                 cvars, svars, crashed, closed_fds>>

\* the task is one the caller wrote: it returns what it likes
DispatchInvoke(socket_valid) ==
  /\ Dispatch(socket_valid)
  /\ UNCHANGED netvars

\* what the receive call of a built-in task can do: no buffer to receive
\* into, a hard error, EAGAIN, a message, an SCTP notification, or a return
\* value of 0
RecvOutcomes(kind) ==
  {"alloc_fail", "error", "eagain", "data", "zero"}
    \cup (IF kind = "sctp_recvmsg" THEN {"notification"} ELSE {})

\* a task that takes a hard read error for the end of the socket
recvfrom_pdu_task_ErrorCloses(outcome) ==
  IF outcome = "alloc_fail" THEN [ret |-> TRUE, func |-> 0]
  ELSE IF outcome = "error" THEN [ret |-> FALSE, func |-> 0]
  ELSE IF outcome = "eagain" THEN [ret |-> TRUE, func |-> 0]
  ELSE [ret |-> TRUE, func |-> 1]

\* lines 423-446: recvfrom_pdu_task::operator(): the value returned and the
\* number of calls of func
recvfrom_pdu_task(outcome) ==
  IF outcome = "alloc_fail" THEN [ret |-> TRUE, func |-> 0]
  ELSE IF outcome = "error" THEN [ret |-> TRUE, func |-> 0]
  ELSE IF outcome = "eagain" THEN [ret |-> TRUE, func |-> 0]
  ELSE [ret |-> TRUE, func |-> 1]

\* lines 462-489: sctp_recvmsg_pdu_task::operator()
sctp_recvmsg_pdu_task(outcome) ==
  IF outcome = "alloc_fail" THEN [ret |-> TRUE, func |-> 0]
  ELSE IF outcome = "error" THEN [ret |-> TRUE, func |-> 0]
  ELSE IF outcome = "eagain" THEN [ret |-> TRUE, func |-> 0]
  ELSE [ret |-> TRUE, func |-> 1]

\* lines 544-559: the task add_socket_pdu_handler / add_socket_sctp_pdu_handler
\* registers
BuiltinTask(kind, outcome) ==
  IF kind = "recvfrom" THEN recvfrom_pdu_task(outcome)
  ELSE sctp_recvmsg_pdu_task(outcome)

\* line 658 when the task is a built-in one
DispatchBuiltin(kind, outcome) ==
  /\ Dispatch(BuiltinTask(kind, outcome).ret)
  /\ task_last' = [kind |-> kind, outcome |-> outcome,
                   ret |-> BuiltinTask(kind, outcome).ret,
                   func |-> BuiltinTask(kind, outcome).func]
  /\ UNCHANGED <<hvars, tvars>>

\* the end of a loop iteration: the locals of the loop body (n, the per-cycle
\* call counts) go out of scope and line 634 copies total_fd_set
LoopTop(total) ==
  /\ read_fd_set' = total
  /\ n' = 0
  /\ invoked' = InitInvoked

\* the dispatch loop is over and the control descriptor is looked at
AtCtrl == rpc = "dispatch" /\ handler_it = END

\* line 668 and lines 670-674: the control descriptor is not set, or the read
\* fails because stop() closed the pipe; the lock is released, next cycle
CtrlSkip ==
  /\ ~crashed
  /\ AtCtrl
  /\ pipefd[1] \notin read_fd_set \/ pipefd[1] < 0
  /\ socket_mutex' = "free"
  /\ rpc' = "wait"
  /\ LoopTop(total_fd_set)
  /\ UNCHANGED <<active_sockets, pipefd, pipe, running, total_fd_set,
                 max_fd, handler_it, cvars, svars, crashed>>
  /\ UNCHANGED <<closed_fds, netvars>>

\* line 670: read(pipefd[0], &msg, sizeof(msg)) returns the oldest record
CanRead == AtCtrl /\ pipefd[1] >= 0 /\ pipefd[1] \in read_fd_set /\ pipe # << >>

\* a read that takes all the pipe buffers
AfterRead_Drains(p) == << >>

\* line 670: read(pipefd[0], &msg, sizeof(msg)) takes one record off the pipe
AfterRead(p) == Tail(p)

\* lines 676-678: EXIT
CtrlExit ==
  /\ ~crashed
  /\ CanRead
  /\ Head(pipe).cmd = "EXIT"
  /\ pipe' = AfterRead(pipe)
  /\ running' = FALSE
  /\ rpc' = "done"
  /\ socket_mutex' = "free"
  /\ UNCHANGED <<active_sockets, pipefd, total_fd_set, read_fd_set, max_fd, n,
                 handler_it, invoked, cvars, svars, crashed>>
  /\ UNCHANGED <<closed_fds, netvars>>

\* a max_fd that is not raised for the new descriptor
MaxFdAfterAdd_Stale(fd) == max_fd

\* line 682
MaxFdAfterAdd(fd) == Max(max_fd, fd)

\* lines 679-686: NEW_FD
CtrlNewFd ==
  /\ ~crashed
  /\ CanRead
  /\ Head(pipe).cmd = "NEW_FD"
  /\ pipe' = AfterRead(pipe)
  /\ IF Head(pipe).new_fd >= 0
       THEN /\ total_fd_set' = total_fd_set \cup {Head(pipe).new_fd}
            /\ max_fd' = MaxFdAfterAdd(Head(pipe).new_fd)
       ELSE UNCHANGED <<total_fd_set, max_fd>>
  /\ socket_mutex' = "free"
  /\ rpc' = "wait"
  /\ LoopTop(total_fd_set')
  /\ UNCHANGED <<active_sockets, pipefd, running, handler_it, cvars, svars, crashed>>
  /\ UNCHANGED <<closed_fds, netvars>>

\* lines 687-690 with remove_socket_unprotected (lines 610-620): RM_FD
CtrlRmFd ==
  /\ ~crashed
  /\ CanRead
  /\ Head(pipe).cmd = "RM_FD"
  /\ pipe' = AfterRead(pipe)
  /\ socket_mutex' = "free"
  /\ rpc' = "wait"
  /\ IF Head(pipe).new_fd < 0
       THEN UNCHANGED <<active_sockets, total_fd_set, max_fd, crashed>>
       ELSE \/ /\ \E as \in EraseResults(Head(pipe).new_fd) :
                    /\ active_sockets' = as
                    /\ max_fd' = MaxFdAfterRemove(as)
               /\ total_fd_set' = total_fd_set \ {Head(pipe).new_fd}
               /\ UNCHANGED crashed
            \/ /\ EraseCrashes(Head(pipe).new_fd)
               /\ crashed' = TRUE
               /\ UNCHANGED <<active_sockets, total_fd_set, max_fd>>
  /\ LoopTop(total_fd_set')
  /\ UNCHANGED <<pipefd, running, handler_it, cvars, svars>>
  /\ UNCHANGED <<closed_fds, netvars>>

(***************************************************************************)
(* net_utils::open_socket and socket_handler_t                             *)
(***************************************************************************)
\* the descriptor socket(2) returns: the lowest one that is not open, or -1
\* when the call fails or the descriptor table is full
LowestFree(table) ==
  IF (0..MaxFd) \ table = {} THEN -1
  ELSE CHOOSE d \in (0..MaxFd) \ table : \A e \in (0..MaxFd) \ table : d <= e

\* line 114: fd = socket(...); F is the set of system calls that fail
SocketCall(F) == IF "socket" \in F THEN -1 ELSE LowestFree(fd_table)

\* an open_socket that also gives up when the INITMSG options cannot be read
open_socket_InitGetFatal(protocol, F, fd) ==
  IF fd = -1 THEN -1
  ELSE IF protocol # "SCTP" THEN fd
  ELSE IF "rto_get" \in F THEN -1
  ELSE IF "rto_set" \in F THEN -1
  ELSE IF "init_get" \in F THEN -1
  ELSE IF "init_set" \in F THEN -1
  ELSE fd

\* lines 115-183: the value net_utils::open_socket returns once socket()
\* returned fd.  No path of the function closes fd.
open_socket(protocol, F, fd) ==
  IF fd = -1 THEN -1
  ELSE IF protocol # "SCTP" THEN fd
  ELSE IF "rto_get" \in F THEN -1
  ELSE IF "rto_set" \in F THEN -1
  ELSE IF "init_set" \in F THEN -1
  ELSE fd

\* lines 116-179: what open_socket logs: the failure it returns -1 for, or
\* that it only warned (the subscription, the read of INITMSG), or nothing
open_socket_log(protocol, F, fd) ==
  IF fd = -1 THEN "socket"
  ELSE IF protocol # "SCTP" THEN "none"
  ELSE IF "rto_get" \in F THEN "rto_get"
  ELSE IF "rto_set" \in F THEN "rto_set"
  ELSE IF "init_set" \in F THEN "init_set"
  ELSE IF "events" \in F \/ "init_get" \in F THEN "warned"
  ELSE "none"

\* the descriptor table after socket() returned fd
TableWith(table, fd) == IF fd >= 0 THEN table \cup {fd} ELSE table

\* the value of sockfd a default-constructed handle has
NoSockfd == -1

\* socket_handler_t(): a handle that owns nothing
Construct(h) ==
  /\ ~live[h]
  /\ live' = [live EXCEPT ![h] = TRUE]
  /\ sockfd' = [sockfd EXCEPT ![h] = NoSockfd]
  /\ addr' = [addr EXCEPT ![h] = "none"]
  /\ hlast' = SockCall("construct", h, "void", "none", -1)
  /\ UNCHANGED <<fd_table, owned>>
  /\ UNCHANGED <<mvars, tvars, task_last>>

\* line 297: if (sockfd >= 0)
IsOpen(h) == sockfd[h] >= 0

\* lines 293-303: socket_handler_t::open_socket
OpenSocket(h, protocol, F) ==
  /\ live[h]
  /\ IF IsOpen(h)
       THEN /\ hlast' = SockCall("open_socket", h, "false", "already_open", -1)
            /\ UNCHANGED <<fd_table, sockfd, owned>>
       ELSE /\ fd_table' = TableWith(fd_table, SocketCall(F))
            /\ owned' = TableWith(owned, SocketCall(F))
            /\ sockfd' = [sockfd EXCEPT ![h] = open_socket(protocol, F, SocketCall(F))]
            /\ hlast' = SockCall("open_socket", h,
                                 IF sockfd'[h] >= 0 THEN "true" ELSE "false",
                                 open_socket_log(protocol, F, SocketCall(F)), -1)
  /\ UNCHANGED <<live, addr>>
  /\ UNCHANGED <<mvars, tvars, task_last>>

\* line 271: the descriptor close() passes to ::close, -1 when it calls none
ClosedBy(h) == IF sockfd[h] >= 0 THEN sockfd[h] ELSE -1

\* lines 271-274: ::close(sockfd); sockfd = -1
CloseEffect(h) ==
  /\ fd_table' = fd_table \ {ClosedBy(h)}
  /\ owned' = owned \ {ClosedBy(h)}
  /\ sockfd' = [sockfd EXCEPT ![h] = IF sockfd[h] >= 0 THEN -1 ELSE @]

\* lines 269-275: socket_handler_t::close
Close(h) ==
  /\ live[h]
  /\ CloseEffect(h)
  /\ hlast' = SockCall("close", h, "void", "none", ClosedBy(h))
  /\ UNCHANGED <<live, addr>>
  /\ UNCHANGED <<mvars, tvars, task_last>>

\* lines 277-281: socket_handler_t::reset
Reset(h) ==
  /\ live[h]
  /\ CloseEffect(h)
  /\ addr' = [addr EXCEPT ![h] = "none"]
  /\ hlast' = SockCall("reset", h, "void", "none", ClosedBy(h))
  /\ UNCHANGED live
  /\ UNCHANGED <<mvars, tvars, task_last>>

\* lines 253-256: ~socket_handler_t
Destroy(h) ==
  /\ live[h]
  /\ CloseEffect(h)
  /\ addr' = [addr EXCEPT ![h] = "none"]
  /\ live' = [live EXCEPT ![h] = FALSE]
  /\ hlast' = SockCall("destroy", h, "void", "none", ClosedBy(h))
  /\ UNCHANGED <<mvars, tvars, task_last>>

\* lines 250 and 265: the value a move leaves in other.sockfd
MovedFrom == 0

\* lines 246-252: socket_handler_t(socket_handler_t&& other)
MoveConstruct(h, other) ==
  /\ ~live[h]
  /\ live[other]
  /\ live' = [live EXCEPT ![h] = TRUE]
  /\ sockfd' = [sockfd EXCEPT ![h] = sockfd[other], ![other] = MovedFrom]
  /\ addr' = [addr EXCEPT ![h] = addr[other], ![other] = "none"]
  /\ hlast' = SockCall("move_construct", h, "void", "none", -1)
  /\ UNCHANGED <<fd_table, owned>>
  /\ UNCHANGED <<mvars, tvars, task_last>>

\* lines 257-267: socket_handler_t::operator=(socket_handler_t&& other)
MoveAssign(h, other) ==
  /\ live[h]
  /\ live[other]
  /\ IF h = other
       THEN UNCHANGED <<sockfd, addr>>
       ELSE /\ sockfd' = [sockfd EXCEPT ![h] = sockfd[other], ![other] = MovedFrom]
            /\ addr' = [addr EXCEPT ![h] = addr[other], ![other] = "none"]
  /\ hlast' = SockCall("move_assign", h, "void", "none", -1)
  /\ UNCHANGED <<fd_table, live, owned>>
  /\ UNCHANGED <<mvars, tvars, task_last>>

\* lines 186-200: net_utils::bind_addr(fd, addr_in); the error it logs, "none"
\* when bind(2) was called and succeeded
bind_addr_in(fd, bind_ok) ==
  IF fd < 0 THEN "closed_socket"
  ELSE IF ~bind_ok THEN "bind"
  ELSE "none"

\* line 214: the value bind_addr(fd, str, port, result) returns once the
\* address text was converted, given what the call at line 210 logged
BindReturn(err) == TRUE

\* lines 202-215: net_utils::bind_addr(fd, bind_addr_str, port, addr_result):
\* the return value, the error logged and whether *addr_result was written
bind_addr(fd, parses, bind_ok) ==
  IF ~parses
    THEN [ret |-> FALSE, err |-> "convert", addr |-> FALSE]
    ELSE [ret |-> BindReturn(bind_addr_in(fd, bind_ok)),
          err |-> bind_addr_in(fd, bind_ok), addr |-> TRUE]

BoolStr(b) == IF b THEN "true" ELSE "false"

\* lines 283-286: socket_handler_t::bind_addr
BindAddr(h, parses, bind_ok) ==
  /\ live[h]
  /\ addr' = [addr EXCEPT ![h] = IF bind_addr(sockfd[h], parses, bind_ok).addr
                                   THEN "set" ELSE @]
  /\ hlast' = SockCall("bind_addr", h,
                       BoolStr(bind_addr(sockfd[h], parses, bind_ok).ret),
                       bind_addr(sockfd[h], parses, bind_ok).err, -1)
  /\ UNCHANGED <<fd_table, live, sockfd, owned>>
  /\ UNCHANGED <<mvars, tvars, task_last>>

\* lines 313-319 and 347-353: open_socket, then bind_addr, then reset() when
\* bind_addr returned false; s is the value open_socket left in sockfd
OpenAndBind(h, name, protocol, F, parses, bind_ok, listen_ok) ==
  /\ live[h]
  /\ IF IsOpen(h)
       THEN /\ hlast' = SockCall(name, h, "false", "already_open", -1)
            /\ UNCHANGED <<fd_table, sockfd, addr, owned>>
       ELSE LET fd == SocketCall(F)
                s == open_socket(protocol, F, fd)
                b == bind_addr(s, parses, bind_ok)
            IN  IF s < 0
                  THEN /\ fd_table' = TableWith(fd_table, fd)
                       /\ owned' = TableWith(owned, fd)
                       /\ sockfd' = [sockfd EXCEPT ![h] = s]
                       /\ hlast' = SockCall(name, h, "false", "open", -1)
                       /\ UNCHANGED addr
                  ELSE IF ~b.ret
                  THEN /\ fd_table' = fd_table \ {s}
                       /\ owned' = owned \ {s}
                       /\ sockfd' = [sockfd EXCEPT ![h] = -1]
                       /\ addr' = [addr EXCEPT ![h] = "none"]
                       /\ hlast' = SockCall(name, h, "false", b.err, s)
                  ELSE /\ fd_table' = TableWith(fd_table, fd)
                       /\ owned' = TableWith(owned, fd)
                       /\ sockfd' = [sockfd EXCEPT ![h] = s]
                       /\ addr' = [addr EXCEPT ![h] = "set"]
                       /\ hlast' = SockCall(name, h,
                                      BoolStr(listen_ok),
                                      IF b.err # "none" THEN b.err
                                      ELSE IF listen_ok THEN "none" ELSE "listen",
                                      -1)
  /\ UNCHANGED live
  /\ UNCHANGED <<mvars, tvars, task_last>>

\* lines 311-321: net_utils::sctp_init_socket
SctpInitSocket(h, F, parses, bind_ok) ==
  OpenAndBind(h, "sctp_init_socket", "SCTP", F, parses, bind_ok, TRUE)

\* lines 345-360: net_utils::tcp_make_server
TcpMakeServer(h, F, parses, bind_ok, listen_ok) ==
  OpenAndBind(h, "tcp_make_server", "TCP", F, parses, bind_ok, listen_ok)

(***************************************************************************)
(***************************************************************************)
(* net_utils::tcp_send                                                     *)
(***************************************************************************)
\* lines 392-393: the call, with the size of the buffer
TcpSendBegin(nb) ==
  /\ tcp_pc = "idle"
  /\ nbytes' = nb
  /\ nbytes_remaining' = nb
  /\ tcp_pc' = "loop"
  /\ UNCHANGED tcp_ret
  /\ UNCHANGED <<mvars, hvars, task_last>>

\* line 399: the value returned when send returned i < 1
RetOnFailure(i) == i

\* lines 394-403: one iteration; send(2) returns i, the number of bytes it
\* took, 0, or -1
TcpSendIter(i) ==
  /\ tcp_pc = "loop"
  /\ nbytes_remaining > 0
  /\ i <= nbytes_remaining
  /\ IF i < 1
       THEN /\ tcp_ret' = RetOnFailure(i)
            /\ tcp_pc' = "ret"
            /\ UNCHANGED nbytes_remaining
       ELSE /\ nbytes_remaining' = nbytes_remaining - i
            /\ UNCHANGED <<tcp_ret, tcp_pc>>
  /\ UNCHANGED nbytes
  /\ UNCHANGED <<mvars, hvars, task_last>>

\* line 404: the loop is over
TcpSendReturn ==
  /\ tcp_pc = "loop"
  /\ nbytes_remaining <= 0
  /\ tcp_ret' = nbytes - nbytes_remaining
  /\ tcp_pc' = "ret"
  /\ UNCHANGED <<nbytes, nbytes_remaining>>
  /\ UNCHANGED <<mvars, hvars, task_last>>

\* the caller has the result; the locals of the call are gone
TcpSendDone ==
  /\ tcp_pc = "ret"
  /\ tcp_pc' = "idle"
  /\ nbytes' = 0
  /\ nbytes_remaining' = 0
  /\ tcp_ret' = 0
  /\ UNCHANGED <<mvars, hvars, task_last>>

(***************************************************************************)
(* Specifications                                                          *)
(***************************************************************************)
Reactor ==
  \/ RunThreadStart
  \/ RunThreadInit
  \/ SelectError
  \/ Select
  \/ Lock
  \/ DispatchSkip
  \/ \E v \in BOOLEAN : DispatchInvoke(v)
  \/ CtrlSkip
  \/ CtrlExit
  \/ CtrlNewFd
  \/ CtrlRmFd

Stopper ==
  \/ StopBegin
  \/ StopLock
  \/ StopWrite
  \/ StopWriteInterrupted
  \/ StopJoin
  \/ StopClose

Next ==
  \/ \E t \in Callers, fd \in ArgFds : AddSocketHandler(t, fd)
  \/ \E t \in Callers, fd \in UserFds : RemoveSocket(t, fd)
  \/ \E t \in Callers : WriteCtrl(t)
  \/ \E t \in Callers : WriteInterrupted(t)
  \/ Stopper
  \/ Reactor

Spec == Init /\ [][Next]_vars

\* The threads that are inside an operation are scheduled: the reactor thread,
\* a caller inside its critical section, the thread inside stop().  The mutex
\* is taken to be fair to the reactor.  Signals need not arrive.
StopperInside ==
  \/ StopLock
  \/ StopWrite
  \/ StopJoin
  \/ StopClose

FairSpec ==
  /\ Spec
  /\ WF_vars(Reactor)
  /\ SF_vars(Lock)
  /\ \A t \in Callers : WF_vars(WriteCtrl(t))
  /\ WF_vars(StopperInside)

\* Registration under load: every caller thread registers a descriptor of its
\* own while the reactor runs; nobody unregisters or stops, and the tasks
\* are the built-in ones, which always report the socket valid.
FdOf == [t \in Callers |-> IF t = "c1" THEN 1 ELSE 4]

Register(t) ==
  /\ FdOf[t] \notin active_sockets
  /\ AddSocketHandler(t, FdOf[t])

ReactorRegistering ==
  \/ RunThreadStart
  \/ RunThreadInit
  \/ Select
  \/ Lock
  \/ DispatchSkip
  \/ DispatchInvoke(TRUE)
  \/ CtrlSkip
  \/ CtrlNewFd

NextRegister ==
  \/ \E t \in Callers : Register(t)
  \/ \E t \in Callers : WriteCtrl(t)
  \/ ReactorRegistering

\* the reactor thread and a caller inside its critical section are scheduled
SpecRegister ==
  /\ Init
  /\ [][NextRegister]_vars
  /\ WF_vars(ReactorRegistering)
  /\ \A t \in Callers : WF_vars(WriteCtrl(t))

\* The socket handles on their own: any sequence of the operations of
\* socket_handler_t on the objects of Handles.
NextHandles ==
  \/ \E h \in Handles : Construct(h)
  \/ \E h \in Handles, p \in Protocols, F \in FailSets : OpenSocket(h, p, F)
  \/ \E h \in Handles : Close(h)
  \/ \E h \in Handles : Reset(h)
  \/ \E h \in Handles : Destroy(h)
  \/ \E h \in Handles, other \in Handles : MoveConstruct(h, other)
  \/ \E h \in Handles, other \in Handles : MoveAssign(h, other)
  \/ \E h \in Handles, parses \in BOOLEAN, bind_ok \in BOOLEAN :
        BindAddr(h, parses, bind_ok)
  \/ \E h \in Handles, F \in FailSets, parses \in BOOLEAN, bind_ok \in BOOLEAN :
        SctpInitSocket(h, F, parses, bind_ok)
  \/ \E h \in Handles, F \in FailSets, parses \in BOOLEAN,
        bind_ok \in BOOLEAN, listen_ok \in BOOLEAN :
        TcpMakeServer(h, F, parses, bind_ok, listen_ok)

SpecHandles == Init /\ [][NextHandles]_vars

\* tcp_send on its own: calls with buffers of up to MaxBytes bytes, send(2)
\* taking any part of what is left or failing.  The calling thread runs.
TcpSendStep ==
  \/ \E i \in -1..MaxBytes : TcpSendIter(i)
  \/ TcpSendReturn

NextTcpSend ==
  \/ \E nb \in 0..MaxBytes : TcpSendBegin(nb)
  \/ TcpSendStep
  \/ TcpSendDone

SpecTcpSend == Init /\ [][NextTcpSend]_vars /\ WF_vars(TcpSendStep)

\* The reactor with built-in tasks only: callers register and unregister
\* through add_socket_pdu_handler / add_socket_sctp_pdu_handler and
\* remove_socket, and every task called is a built-in one.
TaskKinds == {"recvfrom", "sctp_recvmsg"}

ReactorBuiltin ==
  \/ RunThreadStart
  \/ RunThreadInit
  \/ Select
  \/ Lock
  \/ DispatchSkip
  \/ \E k \in TaskKinds : \E o \in RecvOutcomes(k) : DispatchBuiltin(k, o)
  \/ CtrlSkip
  \/ CtrlNewFd
  \/ CtrlRmFd

NextBuiltin ==
  \/ \E t \in Callers, fd \in ArgFds : AddSocketHandler(t, fd)
  \/ \E t \in Callers, fd \in UserFds : RemoveSocket(t, fd)
  \/ \E t \in Callers : WriteCtrl(t)
  \/ \E t \in Callers : WriteInterrupted(t)
  \/ ReactorBuiltin

SpecBuiltin == Init /\ [][NextBuiltin]_vars

\* Opening and closing on their own: handles are constructed, opened with
\* any protocol and any failing system calls, closed and destroyed.
NextOpen ==
  \/ \E h \in Handles : Construct(h)
  \/ \E h \in Handles, p \in Protocols, F \in FailSets : OpenSocket(h, p, F)
  \/ \E h \in Handles : Close(h)
  \/ \E h \in Handles : Destroy(h)

SpecOpen == Init /\ [][NextOpen]_vars

(***************************************************************************)
(* Properties                                                              *)
(***************************************************************************)
\* the write of a record of a caller completes: the pipe is open and has room
WriteCompletes == pipefd[2] >= 0 /\ Len(pipe) < PipeCap

\* caller t returns from the write step of its call
ReturnsFromWrite(t) == pc[t] = "write" /\ pc'[t] = "idle"

\* C1: add_socket_handler called with a negative descriptor, or with a
\* descriptor that is a key of active_sockets, returns false; active_sockets
\* is unchanged and nothing is written to the control pipe.
C1_RegisterRejects ==
  [][\A t \in Callers, fd \in ArgFds :
       (AddSocketHandler(t, fd) /\ (fd < 0 \/ fd \in active_sockets))
         => /\ last'.op = "add" /\ last'.fd = fd /\ last'.ret = "false"
            /\ pc'[t] = "idle"
            /\ active_sockets' = active_sockets
            /\ pipe' = pipe]_vars

\* a call was just refused a descriptor that is registered, while the pipe
\* was open and had room
C1_Witness ==
  /\ last.op = "add" /\ last.fd \in active_sockets
  /\ last.ret = "false" /\ last.err = "duplicate_fd"
  /\ WriteCompletes

\* C2 as claimed: remove_socket of a descriptor that is not a key returns
\* false, writes nothing and leaves active_sockets and the wait set alone;
\* remove_socket of a key writes exactly one RM_FD carrying it and returns
\* true.
C2_UnregisterAsClaimed ==
  [][\A t \in Callers :
       /\ \A fd \in UserFds :
            (RemoveSocket(t, fd) /\ fd \notin active_sockets)
              => /\ last'.op = "rm" /\ last'.fd = fd /\ last'.ret = "false"
                 /\ pc'[t] = "idle"
                 /\ UNCHANGED <<active_sockets, total_fd_set, pipe>>
       /\ (ReturnsFromWrite(t) /\ op[t] = "rm")
            => /\ pipe' = Append(pipe, RmFdMsg(arg[t]))
               /\ last'.ret = "true"]_vars

\* C2 amended: remove_socket of a descriptor that is not a key returns false,
\* writes nothing and leaves active_sockets and the wait set alone;
\* remove_socket of a key attempts one write of RM_FD: when the write
\* completes exactly one RM_FD carrying the descriptor was appended and the
\* call returns true, when it fails nothing was written and the call returns
\* false; active_sockets and the wait set are unchanged either way.
C2_Unregister ==
  [][\A t \in Callers :
       /\ \A fd \in UserFds :
            (RemoveSocket(t, fd) /\ fd \notin active_sockets)
              => /\ last'.op = "rm" /\ last'.fd = fd /\ last'.ret = "false"
                 /\ pc'[t] = "idle"
                 /\ UNCHANGED <<active_sockets, total_fd_set, pipe>>
       /\ (ReturnsFromWrite(t) /\ op[t] = "rm")
            => /\ UNCHANGED <<active_sockets, total_fd_set>>
               /\ last'.op = "rm" /\ last'.fd = arg[t]
               /\ IF WriteCompletes
                    THEN pipe' = Append(pipe, RmFdMsg(arg[t])) /\ last'.ret = "true"
                    ELSE pipe' = pipe /\ last'.ret = "false"]_vars

\* a remove_socket of a registered descriptor failed on its write
C2_Witness ==
  /\ last.op = "rm" /\ last.ret = "false" /\ last.err = "write"
  /\ last.fd \in active_sockets

\* C3: when the caller threads register distinct valid descriptors while the
\* reactor runs, and nobody unregisters or stops, every call returns true,
\* every descriptor becomes and stays a key of active_sockets, each is
\* eventually in the wait set (in total_fd_set and covered by max_fd), and
\* at the end of every dispatch pass each registered descriptor that select
\* reported readable has had its task called.
C3_NoRegistrationDropped ==
  /\ [][\A t \in Callers :
         /\ active_sockets \subseteq active_sockets'
         /\ (ReturnsFromWrite(t) /\ op[t] = "add")
              => (last'.ret = "true" /\ arg[t] \in active_sockets')]_vars
  /\ \A fd \in UserFds :
       (fd \in active_sockets)
         ~> [](fd \in active_sockets /\ fd \in total_fd_set /\ fd <= max_fd)
  /\ [](AtCtrl => \A fd \in active_sockets \cap read_fd_set : invoked[fd] = 1)

\* every descriptor is registered and in the wait set, and all of them were
\* serviced in one dispatch pass
C3_Witness ==
  /\ UserFds \subseteq active_sockets
  /\ UserFds \subseteq total_fd_set
  /\ \A fd \in UserFds : fd <= max_fd /\ invoked[fd] = 1
  /\ \A t \in Callers : pc[t] = "idle"

\* an EXIT record is buffered in the control pipe
ExitPending == \E i \in 1..Len(pipe) : pipe[i].cmd = "EXIT"

\* C4: once EXIT has been written to the control pipe the reactor thread
\* terminates, whatever the data descriptors do.
C4_ExitTerminates == ExitPending ~> (rpc = "done" \/ crashed)

\* C5: when stop() has returned, the background thread has terminated.
C5_StopJoinsThread == (nstop > 0 /\ spc = "idle") => rpc = "done"

\* C8: a caller never holds socket_mutex blocked in the write on a full
\* control pipe while the reactor, which alone drains the pipe, waits for
\* socket_mutex.
C8_NoDeadlock ==
  ~(\E t \in Callers :
      /\ pc[t] = "write" /\ socket_mutex = t /\ WriteBlocks
      /\ rpc = "lock")

\* the reactor thread keeps coming back to the wait and the pipe stays open
ReactorKeepsRunning == []<>(rpc = "wait" /\ pipefd[1] >= 0 /\ ~crashed)

\* the RM_FD record of a remove_socket(fd) is buffered in the control pipe
RmPending(fd) == \E i \in 1..Len(pipe) : pipe[i] = RmFdMsg(fd)

\* C6: after remove_socket(fd) returned true, and provided the reactor keeps
\* running, fd is eventually absent from active_sockets and total_fd_set;
\* a task is only called for a key of active_sockets, and an absent
\* descriptor becomes a key again only by a new add_socket_handler.
C6_UnregisterCompletesLater ==
  /\ \A fd \in UserFds :
       ReactorKeepsRunning
         => ((last = Returned("rm", fd, "true", "none") /\ RmPending(fd))
               ~> (fd \notin active_sockets /\ fd \notin total_fd_set))
  /\ [][\A fd \in UserFds :
         /\ invoked'[fd] > invoked[fd] => fd \in active_sockets
         /\ (fd \notin active_sockets /\ fd \in active_sockets')
              => \E t \in Callers : pc[t] = "idle" /\ AddSocketHandler(t, fd)]_vars

\* remove_socket has just returned true and the descriptor is still
\* registered and in the wait set
C6_Witness ==
  /\ last.op = "rm" /\ last.ret = "true"
  /\ last.fd \in active_sockets /\ last.fd \in total_fd_set
  /\ pipe # << >> /\ pipe[Len(pipe)] = RmFdMsg(last.fd)

\* C7: in a wait cycle no task is called twice, no task is called for a
\* descriptor select did not report, at the end of the dispatch pass every
\* registered descriptor that was reported has had its task called, and no
\* call is outstanding when the next wait begins; a control record is read
\* only after the dispatch pass, one per cycle.
C7_OncePerCycle ==
  /\ [](\A fd \in UserFds :
         /\ invoked[fd] <= 1
         /\ invoked[fd] = 1 => fd \in read_fd_set
         /\ (AtCtrl /\ fd \in active_sockets /\ fd \in read_fd_set) => invoked[fd] = 1
         /\ rpc \in {"wait", "lock"} => invoked[fd] = 0)
  /\ [][(pipefd' = pipefd /\ Len(pipe') < Len(pipe))
         => (AtCtrl /\ rpc' \in {"wait", "done"} /\ pipe' = Tail(pipe))]_vars

\* two registered descriptors were readable in the same cycle and each had
\* its task called once
C7_Witness ==
  /\ AtCtrl
  /\ UserFds \subseteq active_sockets
  /\ \A fd \in UserFds : fd \in read_fd_set /\ invoked[fd] = 1

\* C9: when add_socket_handler passed its checks and the write of NEW_FD does
\* not complete, it returns false, nothing is written, the entry stays in
\* active_sockets and the descriptor is not in the wait set.
C9_FailedNotification ==
  [][\A t \in Callers :
       (ReturnsFromWrite(t) /\ op[t] = "add" /\ ~WriteCompletes)
         => /\ last' = Returned("add", arg[t], "false", "write")
            /\ pipe' = pipe
            /\ arg[t] \in active_sockets'
            /\ arg[t] \notin total_fd_set']_vars

\* C10: a caller whose write fails returns false, and a stop() whose write
\* of EXIT failed does not stay waiting for the background thread.
C10_WriteFailureReported ==
  /\ [][\A t \in Callers :
         (ReturnsFromWrite(t) /\ ~WriteCompletes) => last'.ret = "false"]_vars
  /\ (spc = "join" /\ stop_wr = "fail") ~> (spc # "join")

\* the live handles whose sockfd is d
OwnersOf(d) == {h \in Handles : live[h] /\ sockfd[h] = d}

\* a step of close, reset or the destructor on handle h
Closing(h) == Close(h) \/ Reset(h) \/ Destroy(h)

\* C11: at most one live handle holds a given descriptor; a move leaves the
\* source with sockfd = -1; and a handle only ever passes to ::close a
\* descriptor that open_socket created and that is still open, so closing a
\* moved-from handle closes nothing.
C11_ExclusiveOwnership ==
  /\ [](\A d \in 0..MaxFd : Cardinality(OwnersOf(d)) <= 1)
  /\ [][\A h \in Handles, other \in Handles :
          (h # other /\ (MoveConstruct(h, other) \/ MoveAssign(h, other)))
            => sockfd'[other] = -1]_vars
  /\ [][\A h \in Handles :
          (Closing(h) /\ hlast'.closed >= 0) => hlast'.closed \in owned]_vars

\* handle h owns a descriptor: its sockfd is one that open_socket created
\* and that is still open
Owns(h) == live[h] /\ sockfd[h] \in owned

\* C12: open_socket on a handle fails as already open, changing neither the
\* handle nor the descriptor table, exactly when the handle owns a descriptor;
\* close leaves sockfd = -1, and a close that follows a close of the same
\* handle closes nothing.
C12_OpenCloseMachine ==
  /\ [][\A h \in Handles, p \in Protocols, F \in FailSets :
          OpenSocket(h, p, F)
            => /\ (hlast'.err = "already_open") <=> Owns(h)
               /\ hlast'.err = "already_open"
                    => (hlast'.ret = "false" /\ UNCHANGED <<sockfd, fd_table>>)]_vars
  /\ [][\A h \in Handles :
          Close(h) => /\ sockfd'[h] = -1
                      /\ (hlast.op = "close" /\ hlast.h = h) => hlast'.closed = -1]_vars

\* C13: bind_addr returns true only when the address text was converted,
\* the descriptor was valid and bind(2) succeeded; sctp_init_socket and
\* tcp_make_server return false and leave the handle reset when binding fails.
C13_BindReportsFailure ==
  /\ hlast.op = "bind_addr" /\ hlast.ret = "true" => hlast.err = "none"
  /\ (hlast.op \in {"sctp_init_socket", "tcp_make_server"}
        /\ hlast.err \in {"convert", "closed_socket", "bind"})
       => (hlast.ret = "false" /\ sockfd[hlast.h] = -1)

\* the bytes the send calls of the current call of tcp_send have taken
Transmitted == nbytes - nbytes_remaining

\* C14: tcp_send terminates, and the value it returns is the number of bytes
\* its send calls transmitted: nbytes when all were, the bytes of the
\* preceding successful calls when a send failed or made no progress.
C14_TcpSendCount ==
  /\ [](tcp_pc = "ret" => tcp_ret = Transmitted)
  /\ (tcp_pc = "loop") ~> (tcp_pc = "ret")

\* the receive call of the task succeeded
ReceiveSucceeded(outcome) == outcome \in {"data", "zero", "notification"}

\* C15: a built-in task returns true whatever its receive call did and calls
\* func once when the receive call succeeded, not at all otherwise; a call of
\* a built-in task removes no entry of active_sockets: entries leave only
\* when the reactor processes an RM_FD record.
C15_BuiltinTasksStayValid ==
  /\ [](task_last.kind # "none"
          => /\ task_last.ret = TRUE
             /\ task_last.func = IF ReceiveSucceeded(task_last.outcome) THEN 1 ELSE 0)
  /\ [][(active_sockets' # active_sockets /\ ~(active_sockets \subseteq active_sockets'))
          => (CanRead /\ Head(pipe).cmd = "RM_FD")]_vars

\* a built-in task has just met a hard read error and its descriptor is
\* still registered and in the wait set
C15_Witness ==
  /\ task_last.outcome = "error"
  /\ rpc = "dispatch"
  /\ \E fd \in active_sockets \cap total_fd_set : invoked[fd] = 1 /\ handler_it = NextIt(active_sockets, fd)

\* the reactor reads an RM_FD record whose descriptor is not a key of
\* active_sockets
RmFdOfAbsent ==
  /\ CanRead
  /\ Head(pipe).cmd = "RM_FD"
  /\ Head(pipe).new_fd \notin active_sockets
  /\ pipe' = Tail(pipe)

\* C16: processing an RM_FD record for a descriptor that is not a key of
\* active_sockets changes nothing: active_sockets is unchanged, the wait set
\* is unchanged but for that descriptor, and the loop goes on to the next
\* wait.
C16_RemoveAbsentIsNoOp ==
  [][RmFdOfAbsent
       => /\ active_sockets' = active_sockets
          /\ total_fd_set' \ {Head(pipe).new_fd} = total_fd_set \ {Head(pipe).new_fd}
          /\ ~crashed'
          /\ rpc' = "wait"]_vars

\* C17: when the task called for a readable descriptor returns false, that
\* descriptor leaves active_sockets and total_fd_set in the same step, the
\* dispatch pass goes on with the next entry, and the reactor closes no
\* descriptor; at the end of the pass every registered descriptor that select
\* reported has had its task called once and no task was called twice; a
\* task is called only for a key of active_sockets, and a removed descriptor
\* becomes a key again only by a new add_socket_handler.
C17_PeerClosedRemoval ==
  /\ [][DispatchInvoke(FALSE)
          => /\ handler_it \notin active_sockets'
             /\ handler_it \notin total_fd_set'
             /\ active_sockets' = active_sockets \ {handler_it}
             /\ rpc' = "dispatch"
             /\ closed_fds' = closed_fds]_vars
  /\ [](\A fd \in UserFds :
          /\ invoked[fd] <= 1
          /\ (AtCtrl /\ fd \in active_sockets /\ fd \in read_fd_set) => invoked[fd] = 1)
  /\ [][\A fd \in UserFds :
          /\ invoked'[fd] > invoked[fd] => fd \in active_sockets
          /\ (fd \notin active_sockets /\ fd \in active_sockets')
               => \E t \in Callers : AddSocketHandler(t, fd)]_vars

\* in one dispatch pass the task of the lower descriptor returned false and
\* was removed, and the task of the higher descriptor was then called
C17_Witness ==
  /\ AtCtrl
  /\ \E fd \in UserFds, other \in active_sockets :
       /\ fd < other
       /\ fd \notin active_sockets /\ fd \notin total_fd_set
       /\ fd \in read_fd_set /\ invoked[fd] = 1
       /\ other \in read_fd_set /\ invoked[other] = 1
  /\ closed_fds = {}

\* the threads that are between taking and releasing socket_mutex: a caller
\* past its checks, stop() at its write, the reactor in its shared state area
InCriticalSection ==
  {t \in Callers : pc[t] = "write"}
    \cup (IF spc = "write" THEN {"s"} ELSE {})
    \cup (IF rpc = "dispatch" THEN {"r"} ELSE {})

\* C18: at most one thread is inside a critical section and it is the one
\* that holds socket_mutex; active_sockets changes, and a record is written
\* to the control pipe, only in a step of the thread that holds socket_mutex
\* (or takes it in that step); the reactor does not hold socket_mutex while
\* it is in select.
C18_MutualExclusion ==
  /\ [](/\ Cardinality(InCriticalSection) <= 1
        /\ InCriticalSection = IF socket_mutex = "free" THEN {} ELSE {socket_mutex}
        /\ rpc = "wait" => socket_mutex # "r")
  /\ [][active_sockets' # active_sockets
          => \/ socket_mutex = "r" /\ rpc = "dispatch"
             \/ socket_mutex = "free" /\ socket_mutex' \in Callers]_vars
  /\ [][(pipefd' = pipefd /\ Len(pipe') > Len(pipe))
          => \/ socket_mutex \in Callers /\ pc[socket_mutex] = "write"
             \/ socket_mutex = "s" /\ spc = "write"]_vars

\* a caller holds socket_mutex at its write while the reactor, back from
\* select, and stop() both wait for it
C18_Witness ==
  /\ \E t \in Callers : pc[t] = "write" /\ socket_mutex = t
  /\ rpc = "lock"
  /\ spc = "lock"

\* the reactor has acted on record m, which it read in this step
ActedOn(m) ==
  IF m.cmd = "EXIT" THEN rpc' = "done" /\ ~running'
  ELSE IF m.cmd = "NEW_FD"
    THEN rpc' = "wait" /\ (m.new_fd >= 0 => m.new_fd \in total_fd_set')
  ELSE rpc' = "wait" /\ (m.new_fd \notin total_fd_set' \/ crashed')

\* C19: while the pipe is open its content changes only by a record being
\* appended behind those buffered, or by the reactor, at the end of a
\* dispatch pass, taking the oldest record, acting on it and going to the
\* next wait (or terminating); while a record is buffered select does not
\* block and reports the control descriptor.
C19_ControlMessagesInOrder ==
  /\ [][(pipefd' = pipefd /\ pipe' # pipe)
          => \/ /\ Len(pipe') = Len(pipe) + 1
                /\ SubSeq(pipe', 1, Len(pipe)) = pipe
             \/ /\ AtCtrl /\ pipe # << >>
                /\ pipe' = Tail(pipe)
                /\ ActedOn(Head(pipe))]_vars
  /\ [][(rpc = "wait" /\ rpc' = "lock" /\ pipe # << >>)
          => pipefd[1] \in read_fd_set']_vars
  /\ []((rpc = "wait" /\ running /\ ~crashed /\ pipe # << >>) => ENABLED Select)

\* the NEW_FD of a descriptor was consumed, the RM_FD written after it is
\* the one buffered record, and the reactor is at select
C19_Witness ==
  /\ rpc = "wait"
  /\ \E fd \in UserFds : fd \in total_fd_set /\ pipe = <<RmFdMsg(fd)>>

\* stop() has returned and the reactor thread has terminated on EXIT
ShutdownCompleted == nstop > 0 /\ spc = "idle" /\ rpc = "done"

\* C20 as claimed: once shutdown has completed active_sockets is empty, and
\* the reactor closes no descriptor but the two ends of its control pipe.
C20_TeardownAsClaimed ==
  /\ ShutdownCompleted => active_sockets = {}
  /\ closed_fds \subseteq {PipeRd, PipeWr}

\* C20 amended: EXIT and stop() leave active_sockets as it is; the reactor
\* closes descriptors only in stop(), and only the two ends of its control
\* pipe, never a registered descriptor.
C20_TeardownClosesOnlyPipe ==
  /\ [][(CtrlExit \/ Stopper) => active_sockets' = active_sockets]_vars
  /\ [][closed_fds' # closed_fds => StopClose]_vars
  /\ [](closed_fds \subseteq {PipeRd, PipeWr} /\ closed_fds \cap active_sockets = {})

\* shutdown has completed through EXIT, the pipe is closed and a descriptor
\* is still registered
C20_Witness ==
  /\ ShutdownCompleted
  /\ closed_fds = {PipeRd, PipeWr}
  /\ active_sockets # {}

\* a call of open_socket for an SCTP socket on handle h, with failing system
\* calls F, whose socket() call returned a descriptor
OpensSctp(h, F) ==
  /\ ~IsOpen(h)
  /\ SocketCall(F) >= 0
  /\ OpenSocket(h, "SCTP", F)

\* C21 as claimed: for an SCTP socket open_socket returns -1 exactly when
\* setting RTO or setting INITMSG fails; a failed subscription and a failed
\* read of RTO or INITMSG leave the socket returned.
C21_SctpFatalAsClaimed ==
  [][\A h \in Handles, F \in FailSets :
       OpensSctp(h, F)
         => (sockfd'[h] = -1 <=> F \cap {"rto_set", "init_set"} # {})]_vars

\* C21 amended: for an SCTP socket open_socket returns -1 exactly when
\* reading RTO, setting RTO or setting INITMSG fails; a failed subscription
\* and a failed read of INITMSG are logged and the descriptor socket()
\* gave is returned.
C21_SctpFatalSteps ==
  [][\A h \in Handles, F \in FailSets :
       OpensSctp(h, F)
         => /\ sockfd'[h] = -1 <=> F \cap {"rto_get", "rto_set", "init_set"} # {}
            /\ sockfd'[h] # -1 => sockfd'[h] = SocketCall(F)]_vars

\* open_socket has just returned a descriptor although it logged a failed
\* subscription or a failed read of INITMSG
C21_Witness ==
  /\ hlast.op = "open_socket" /\ hlast.ret = "true" /\ hlast.err = "warned"
  /\ sockfd[hlast.h] \in owned

\* C22: every descriptor of the wait set other than the control descriptor
\* is a key of active_sockets.
C22_WaitSetHasTasks ==
  \A fd \in total_fd_set : fd = PipeRd \/ fd \in active_sockets

\* C23: whenever the background thread waits, max_fd is at least the control
\* descriptor and at least every descriptor of the wait set.
C23_MaxFdCoversWaitSet ==
  rpc = "wait" => /\ max_fd >= pipefd[1]
                  /\ \A fd \in total_fd_set : max_fd >= fd

\* C24: a call of open_socket that fails leaves no descriptor open: the
\* descriptors open in the process are those open before the call.
C24_FailedOpenLeaksNothing ==
  [][\A h \in Handles, p \in Protocols, F \in FailSets :
       (OpenSocket(h, p, F) /\ hlast'.ret = "false") => fd_table' = fd_table]_vars

\* C25: move-assignment onto a handle that owns a descriptor does not leak
\* it: after the assignment the descriptor is closed or still held by a
\* live handle.
C25_MoveAssignLeaksNothing ==
  [][\A h, other \in Handles :
       (h # other /\ Owns(h) /\ MoveAssign(h, other))
         => \/ sockfd[h] \notin owned'
            \/ \E g \in Handles : live'[g] /\ sockfd'[g] = sockfd[h]]_vars

====
